---- MODULE Spec2Model ----
(***************************************************************************)
(* A model of nilearn's NiftiMapsMasker (nilearn/maskers/                   *)
(* nifti_maps_masker.py): the fit / transform / inverse_transform           *)
(* life cycle, the resolution of the resampling target, the transform-time  *)
(* re-resampling and the overlap check.                                     *)
(*                                                                          *)
(* Images live on one-dimensional grids.  A grid is a shape (number of      *)
(* voxels) and an affine (the world position of the first voxel, in half    *)
(* voxels; a voxel is two half voxels wide).  Voxel values are fixed-point  *)
(* numbers, Scale units to 1.0.                                             *)
(***************************************************************************)
EXTENDS Integers, Sequences, FiniteSets, TLC

VARIABLES params, self, call, lastFit, offGrid, fitGrid, twin

vars == <<params, self, call, lastFit, offGrid, fitGrid, twin>>

----------------------------------------------------------------------------
(* Bounds of the model. *)

\* largest affine (offset of the first voxel, in half voxels) of a data volume
MaxAffine == 1

\* largest number of columns of a region-signal matrix given to inverse_transform
MaxCols == 3

\* largest number of maps, and largest map index, asked of a report
MaxDisplayed == 3

\* largest number of characters that follow the head of a generated prefix
MaxPrefix == 3

\* largest number of calls made on a masker with a memory
MaxCalls == 3

----------------------------------------------------------------------------
(* Values and images. *)

None == [kind |-> "none"]

Absent == [kind |-> "absent"]

Invalid == [kind |-> "invalid"]

\* an image: a spatial shape, an affine, a sequence of volumes (one per map;
\* one for a mask; none kept for data), and the positions <<volume, voxel>>
\* that hold NaN or Inf.  obj tells whose object the image is: "caller" for
\* an object the caller holds (a constructor parameter, an argument), "own"
\* for one the masker made; a write into an image reaches every holder of
\* the same object.
Img(shape, affine, data, nf) ==
    [kind |-> "img", shape |-> shape, affine |-> affine, data |-> data,
     nf |-> nf, obj |-> "caller"]

IsImg(x) == x.kind = "img"

Grid(img) == [shape |-> img.shape, affine |-> img.affine]

\* number of volumes along the 4th axis (img.shape[3])
NVolumes(img) == Len(img.data)

hasattr_maps_img_(s) == s.maps_img_ # Absent

hasattr_n_elements_(s) == s.n_elements_ # <<>>

\* the attributes of a freshly constructed masker: none of the fitted ones
Unfitted == [maps_img_ |-> Absent, mask_img_ |-> Absent, n_elements_ |-> <<>>]

----------------------------------------------------------------------------
(* The collaborators of the masker. *)

\* one entry of the trace of a call: what was done to which image
Event(ev, img, interpolation) ==
    [ev |-> ev, img |-> img, interpolation |-> interpolation]

\* check_niimg: loads a niimg-like object, raises on anything else
check_niimg_raises(imgs) == imgs.kind # "img"

\* copy.deepcopy of an image: a new object with equal content
deepcopy(img) == [img EXCEPT !.obj = "own"]

\* clean_img(detrend=False, standardize=False, ensure_finite=True):
\* NaN and Inf become 0, every other voxel is kept
clean_img(img) ==
    [img EXCEPT !.data = [m \in 1..Len(img.data) |->
                             [v \in 1..img.shape |->
                                 IF <<m, v>> \in img.nf THEN 0 ELSE img.data[m][v]]],
                !.nf = {},
                !.obj = "own"]

\* check_same_fov(a, b): same spatial shape and same affine
check_same_fov(a, b) == a.shape = b.shape /\ a.affine = b.affine

\* check_same_fov(raise_error=True, **images): raises unless all images agree
check_same_fov_raises(images) ==
    \E a \in images : \E b \in images : ~check_same_fov(a, b)

\* value of a volume at a source index, 0 outside the field of view
At(vol, i) == IF i >= 1 /\ i <= Len(vol) THEN vol[i] ELSE 0

\* one resampled voxel: j is the target index, p its position on the source
\* grid in half voxels
ResampleVoxel(vol, p, interpolation) ==
    IF p % 2 = 0
    THEN At(vol, (p \div 2) + 1)
    ELSE LET lo == ((p - 1) \div 2) + 1
         IN IF interpolation = "linear"
            THEN (At(vol, lo) + At(vol, lo + 1)) \div 2
            ELSE At(vol, lo + 1)

\* resample_img(img, target_affine, target_shape, interpolation,
\* force_resample=False)
resample_img(img, target_shape, target_affine, interpolation) ==
    [img EXCEPT
        !.shape = target_shape,
        !.affine = target_affine,
        !.data = [m \in 1..Len(img.data) |->
                    [j \in 1..target_shape |->
                        ResampleVoxel(img.data[m],
                                      target_affine + 2 * (j - 1) - img.affine,
                                      interpolation)]],
        !.obj = "own"]

\* load_mask_img: raises on a mask that masks all data
load_mask_img_raises(mask) == \A v \in 1..mask.shape : mask.data[1][v] = 0

\* BaseMasker._load_mask: None without mask_img, else the loaded mask
_load_mask(p) == IF p.mask_img = None THEN None ELSE deepcopy(p.mask_img)

----------------------------------------------------------------------------
(* NiftiMapsMasker.fit *)

\* what a call leaves behind: the masker's attributes, how the call ended
\* ("ok" or the error raised), the trace of its steps and what it returned
Return(s, log, result) ==
    [self |-> s, outcome |-> "ok", log |-> log, result |-> result]

Raise(s, error, log) ==
    [self |-> s, outcome |-> error, log |-> log, result |-> None]

\* a fit() that has forgotten that None is allowed
ValidTargets_noNone == {"mask", "maps", "data"}

\* the values of resampling_target that fit() accepts
ValidTargets == {"mask", "maps", "data", "None"}

\* a fit() that has lost the check for a missing mask
MaskTargetWithoutMask_never(p) == FALSE

\* resampling_target is "mask" and there is no mask
MaskTargetWithoutMask(p) == p.mask_img = None /\ p.resampling_target = "mask"

\* a fit() that keeps the caller's maps object itself
load_maps_shared(p) == p.maps_img

\* a fit() that loads the maps without the call of clean_img
load_maps_raw(p) == deepcopy(p.maps_img)

\* the maps as fit() loads them: a copy of the constructor's maps_img, NaN and
\* Inf put to zero
load_maps(p) == clean_img(deepcopy(p.maps_img))

\* the images whose fields of view fit() compares when resampling_target is None
fit_fov_images(s, imgs) ==
    {s.maps_img_}
      \cup (IF s.mask_img_ # None THEN {s.mask_img_} ELSE {})
      \cup (IF imgs # None THEN {imgs} ELSE {})

\* a fit() that does not take the data it is given as reference
ref_img_noData(p, s, imgs) ==
    IF p.resampling_target = "mask" THEN s.mask_img_
    ELSE IF p.resampling_target = "maps" THEN s.maps_img_
    ELSE None

\* a fit() that takes the maps as reference when the target is "mask"
ref_img_maskAsMaps(p, s, imgs) ==
    IF p.resampling_target = "data" /\ imgs # None THEN imgs
    ELSE IF p.resampling_target = "mask" THEN s.maps_img_
    ELSE IF p.resampling_target = "maps" THEN s.maps_img_
    ELSE None

\* a fit() that takes no reference image when the target is "maps"
ref_img_noMaps(p, s, imgs) ==
    IF p.resampling_target = "data" /\ imgs # None THEN imgs
    ELSE IF p.resampling_target = "mask" THEN s.mask_img_
    ELSE None

\* the image that gives the final grid, None when there is none at fit time
ref_img(p, s, imgs) ==
    IF p.resampling_target = "data" /\ imgs # None THEN imgs
    ELSE IF p.resampling_target = "mask" THEN s.mask_img_
    ELSE IF p.resampling_target = "maps" THEN s.maps_img_
    ELSE None

\* a resampling of the maps or of the mask to the grid of ref: the image it
\* gives and its entry in the trace
Resampled(what, img, ref, interpolation) ==
    [img |-> resample_img(img, ref.shape, ref.affine, interpolation),
     ev |-> Event("resample", what, interpolation)]

fit_resample_maps(maps, ref) == Resampled("maps", maps, ref, "linear")

\* a fit() that resamples the mask like the maps
fit_resample_mask_linear(mask, ref) == Resampled("mask", mask, ref, "linear")

fit_resample_mask(mask, ref) == Resampled("mask", mask, ref, "nearest")

\* a fit() that counts the voxels of the maps instead of the volumes
fit_done_spatial(s, log) ==
    Return([s EXCEPT !.n_elements_ = <<s.maps_img_.shape>>], log, None)

\* the end of fit(): the number of elements is the number of volumes
fit_done(s, log) ==
    Return([s EXCEPT !.n_elements_ = <<NVolumes(s.maps_img_)>>], log, None)

\* the second half of fit(): resampling to the reference image
fit_resample(p, s, imgs, log) ==
    LET ref == ref_img(p, s, imgs)
    IN IF ref = None
       THEN fit_done(s, log)
       ELSE LET doMaps == p.resampling_target # "maps"
                            /\ ~check_same_fov(ref, s.maps_img_)
                rm == fit_resample_maps(s.maps_img_, ref)
                s1 == IF doMaps THEN [s EXCEPT !.maps_img_ = rm.img] ELSE s
                l1 == IF doMaps THEN log \o <<rm.ev>> ELSE log
                doMask == s1.mask_img_ # None
                            /\ ~check_same_fov(ref, s1.mask_img_)
                rk == fit_resample_mask(s1.mask_img_, ref)
                s2 == IF doMask THEN [s1 EXCEPT !.mask_img_ = rk.img] ELSE s1
                l2 == IF doMask
                      THEN l1 \o <<rk.ev, Event("load_mask_img", "mask", "-")>>
                      ELSE l1
            IN IF doMask /\ load_mask_img_raises(s2.mask_img_)
               THEN Raise(s2, "ValueError: empty mask", l2)
               ELSE fit_done(s2, l2)

\* a fit() that keeps the maps of an earlier fit
fit_load_once(p, s) ==
    IF hasattr_maps_img_(s) THEN s ELSE [s EXCEPT !.maps_img_ = load_maps(p)]

\* self.maps_img_ = ...: fit() starts from the constructor's maps_img
fit_load(p, s) == [s EXCEPT !.maps_img_ = load_maps(p)]

fit(p, s, imgs) ==
    IF p.resampling_target \notin ValidTargets
    THEN Raise(s, "ValueError: invalid resampling_target", <<>>)
    ELSE IF MaskTargetWithoutMask(p)
    THEN Raise(s, "ValueError: no mask", <<>>)
    ELSE LET s1 == fit_load(p, s)
             l1 == <<Event("load", "maps", "-")>>
             l2 == IF imgs # None THEN l1 \o <<Event("load", "data", "-")>> ELSE l1
         IN IF imgs # None /\ check_niimg_raises(imgs)
            THEN Raise(s1, "check_niimg", l2)
            ELSE LET s2 == [s1 EXCEPT !.mask_img_ = _load_mask(p)]
                     l3 == IF p.mask_img # None
                           THEN l2 \o <<Event("load", "mask", "-")>>
                           ELSE l2
                 IN IF p.resampling_target = "None"
                       /\ check_same_fov_raises(fit_fov_images(s2, imgs))
                    THEN Raise(s2, "ValueError: field of view", l3)
                    ELSE fit_resample(p, s2, imgs, l3)

\* a fitted check that looks at maps_img_ only
is_fitted_maps_only(s) == hasattr_maps_img_(s)

__sklearn_is_fitted__(s) == hasattr_maps_img_(s) /\ hasattr_n_elements_(s)

----------------------------------------------------------------------------
(* NiftiMapsMasker.transform_single_imgs *)

\* a transform that leaves the incoming volume out of the comparison
transform_fov_images_noData(s, imgs) ==
    {s.maps_img_} \cup (IF s.mask_img_ # None THEN {s.mask_img_} ELSE {})

\* the images whose fields of view transform compares when resampling_target
\* is None
transform_fov_images(s, imgs) ==
    {s.maps_img_, imgs}
      \cup (IF s.mask_img_ # None THEN {s.mask_img_} ELSE {})

transform_resample_maps(maps, ref) == Resampled("maps", maps, ref, "linear")

transform_resample_mask(mask, ref) == Resampled("mask", mask, ref, "nearest")

\* a transform that resamples the fitted maps themselves
transform_resample_inPlace(s, imgs) ==
    LET doMaps == ~check_same_fov(imgs, s.maps_img_)
        rm == transform_resample_maps(s.maps_img_, imgs)
        doMask == s.mask_img_ # None /\ ~check_same_fov(imgs, s.mask_img_)
        rk == transform_resample_mask(s.mask_img_, imgs)
    IN [maps |-> IF doMaps THEN rm.img ELSE s.maps_img_,
        fresh |-> FALSE,
        mask |-> IF doMask THEN rk.img ELSE s.mask_img_,
        log |-> (IF doMaps THEN <<Event("warn", "maps", "-"), rm.ev>> ELSE <<>>)
                  \o (IF doMask THEN <<Event("warn", "mask", "-"), rk.ev>> ELSE <<>>)]

\* a transform that resamples without warning
transform_resample_silent(s, imgs) ==
    LET doMaps == ~check_same_fov(imgs, s.maps_img_)
        rm == transform_resample_maps(s.maps_img_, imgs)
        doMask == s.mask_img_ # None /\ ~check_same_fov(imgs, s.mask_img_)
        rk == transform_resample_mask(s.mask_img_, imgs)
    IN [maps |-> IF doMaps THEN rm.img ELSE s.maps_img_,
        fresh |-> doMaps,
        mask |-> IF doMask THEN rk.img ELSE s.mask_img_,
        log |-> (IF doMaps THEN <<rm.ev>> ELSE <<>>)
                  \o (IF doMask THEN <<rk.ev>> ELSE <<>>)]

\* the maps and the mask the call works on when resampling_target is "data";
\* fresh tells whether maps is a resampled scratch image or self.maps_img_
\* itself
transform_resample(s, imgs) ==
    LET doMaps == ~check_same_fov(imgs, s.maps_img_)
        rm == transform_resample_maps(s.maps_img_, imgs)
        doMask == s.mask_img_ # None /\ ~check_same_fov(imgs, s.mask_img_)
        rk == transform_resample_mask(s.mask_img_, imgs)
    IN [maps |-> IF doMaps THEN rm.img ELSE s.maps_img_,
        fresh |-> doMaps,
        mask |-> IF doMask THEN rk.img ELSE s.mask_img_,
        log |-> (IF doMaps THEN <<Event("warn", "maps", "-"), rm.ev>> ELSE <<>>)
                  \o (IF doMask THEN <<Event("warn", "mask", "-"), rk.ev>> ELSE <<>>)]

\* data[data < np.finfo(dtype).eps] = 0.0 on the array of a float image: eps
\* lies strictly between 0 and the smallest positive fixed-point value
threshold(img) ==
    [img EXCEPT !.data = [m \in 1..Len(img.data) |->
                             [v \in 1..img.shape |->
                                 IF img.data[m][v] <= 0 THEN 0 ELSE img.data[m][v]]]]

\* np.any(np.sum(data > 0.0, axis=3) > 1)
\* an overlap check for which a zero counts as a value
has_overlap_zeroCounts(img) ==
    \E v \in 1..img.shape :
        Cardinality({m \in 1..Len(img.data) : img.data[m][v] >= 0}) > 1

has_overlap(img) ==
    \E v \in 1..img.shape :
        Cardinality({m \in 1..Len(img.data) : img.data[m][v] > 0}) > 1

\* a transform that always hands the grid of the maps to filter_and_extract
extract_target_always(p, maps) == Grid(maps)

\* target_shape and target_affine handed to filter_and_extract
extract_target(p, maps) ==
    IF p.resampling_target # "data" THEN Grid(maps) ELSE None

\* signal_extraction.img_to_signals_maps: the maps that get a column, in map
\* order.  Without a mask, or with keep_masked_maps, every map does; otherwise
\* the maps that are zero at every voxel of the mask are dropped.
img_to_signals_maps(maps, mask, keep_masked_maps) ==
    LET inMask(m) == \E v \in 1..maps.shape :
                        maps.data[m][v] # 0 /\ mask.data[1][v] # 0
        kept(m) == IF mask = None \/ keep_masked_maps \/ mask.shape # maps.shape
                   THEN TRUE
                   ELSE inMask(m)
    IN SelectSeq([m \in 1..Len(maps.data) |-> m], kept)

\* an extraction that always drops the masked-out maps
_ExtractionFunctor_drops(maps_img_, mask_img_, keep_masked_maps) ==
    img_to_signals_maps(maps_img_, mask_img_, FALSE)

_ExtractionFunctor(maps_img_, mask_img_, keep_masked_maps) ==
    img_to_signals_maps(maps_img_, mask_img_, keep_masked_maps)

\* what filter_and_extract returns, as the arguments that determine it; cols
\* names the map behind each column of the matrix
filter_and_extract(imgs, cols, maps, mask, target, confounds, sample_mask) ==
    [kind |-> "signals", imgs |-> imgs, cols |-> cols, maps |-> maps,
     mask |-> mask, target |-> target, confounds |-> confounds,
     sample_mask |-> sample_mask]

\* a transform that looks for overlap inside the mask only
transform_extract_maskedCheck(p, s, imgs, w, log, confounds, sample_mask) ==
    LET maps == IF p.allow_overlap THEN w.maps ELSE threshold(w.maps)
        s1 == IF ~p.allow_overlap /\ ~w.fresh
              THEN [s EXCEPT !.maps_img_ = maps]
              ELSE s
        l1 == IF p.allow_overlap
              THEN log
              ELSE log \o <<Event("overlap_check", "maps", "-")>>
        inside(v) == IF IsImg(w.mask) /\ w.mask.shape = maps.shape
                     THEN w.mask.data[1][v] # 0
                     ELSE TRUE
        overlap == \E v \in 1..maps.shape :
                      /\ inside(v)
                      /\ Cardinality({m \in 1..Len(maps.data) :
                                         maps.data[m][v] > 0}) > 1
    IN IF ~p.allow_overlap /\ overlap
       THEN Raise(s1, "ValueError: overlap", l1)
       ELSE Return(s1, l1 \o <<Event("filter_and_extract", "data", "-")>>,
                   filter_and_extract(imgs,
                                      _ExtractionFunctor(maps, w.mask,
                                                         p.keep_masked_maps),
                                      maps, w.mask, extract_target(p, maps),
                                      confounds, sample_mask))

\* a transform that looks for overlap in the fitted maps, not in the maps
\* resampled for this call
transform_extract_checksFitted(p, s, imgs, w, log, confounds, sample_mask) ==
    LET maps == IF p.allow_overlap THEN w.maps ELSE threshold(w.maps)
        s1 == IF ~p.allow_overlap /\ ~w.fresh
              THEN [s EXCEPT !.maps_img_ = maps]
              ELSE s
        l1 == IF p.allow_overlap
              THEN log
              ELSE log \o <<Event("overlap_check", "maps", "-")>>
    IN IF ~p.allow_overlap /\ has_overlap(threshold(s.maps_img_))
       THEN Raise(s1, "ValueError: overlap", l1)
       ELSE Return(s1, l1 \o <<Event("filter_and_extract", "data", "-")>>,
                   filter_and_extract(imgs,
                                      _ExtractionFunctor(maps, w.mask,
                                                         p.keep_masked_maps),
                                      maps, w.mask, extract_target(p, maps),
                                      confounds, sample_mask))

\* the overlap check and the extraction, on the maps and mask of this call.
\* get_data() hands out the image's own array, so the thresholding writes
\* into self.maps_img_ unless the maps were resampled for this call.
transform_extract(p, s, imgs, w, log, confounds, sample_mask) ==
    LET maps == IF p.allow_overlap THEN w.maps ELSE threshold(w.maps)
        s1 == IF ~p.allow_overlap /\ ~w.fresh
              THEN [s EXCEPT !.maps_img_ = maps]
              ELSE s
        l1 == IF p.allow_overlap
              THEN log
              ELSE log \o <<Event("overlap_check", "maps", "-")>>
    IN IF ~p.allow_overlap /\ has_overlap(maps)
       THEN Raise(s1, "ValueError: overlap", l1)
       ELSE Return(s1, l1 \o <<Event("filter_and_extract", "data", "-")>>,
                   filter_and_extract(imgs,
                                      _ExtractionFunctor(maps, w.mask,
                                                         p.keep_masked_maps),
                                      maps, w.mask, extract_target(p, maps),
                                      confounds, sample_mask))

transform_single_imgs(p, s, imgs, confounds, sample_mask) ==
    IF ~__sklearn_is_fitted__(s)
    THEN Raise(s, "NotFittedError", <<>>)
    ELSE IF s.mask_img_ = Absent \/ s.maps_img_ = Absent
    THEN Raise(s, "AttributeError", <<>>)
    ELSE IF check_niimg_raises(imgs)
    THEN Raise(s, "check_niimg", <<Event("load", "data", "-")>>)
    ELSE LET l1 == <<Event("load", "data", "-")>>
             same == [maps |-> s.maps_img_, fresh |-> FALSE,
                      mask |-> s.mask_img_, log |-> <<>>]
         IN IF p.resampling_target = "None"
            THEN IF check_same_fov_raises(transform_fov_images(s, imgs))
                 THEN Raise(s, "ValueError: field of view", l1)
                 ELSE transform_extract(p, s, imgs, same, l1, confounds, sample_mask)
            ELSE IF p.resampling_target = "data"
            THEN LET w == transform_resample(s, imgs)
                 IN transform_extract(p, s, imgs, w, l1 \o w.log,
                                      confounds, sample_mask)
            ELSE transform_extract(p, s, imgs, same, l1, confounds, sample_mask)

\* BaseMasker.transform, without high-variance confounds
transform(p, s, imgs, confounds, sample_mask) ==
    transform_single_imgs(p, s, imgs, confounds, sample_mask)

----------------------------------------------------------------------------
(* NiftiMapsMasker.fit_transform and inverse_transform *)

\* a fit_transform that does not hand sample_mask on
fit_transform_noSampleMask(p, s, imgs, confounds, sample_mask) ==
    LET f == fit(p, s, imgs)
    IN IF f.outcome # "ok"
       THEN f
       ELSE LET t == transform(p, f.self, imgs, confounds, "None")
            IN [t EXCEPT !.log = f.log \o t.log]

fit_transform(p, s, imgs, confounds, sample_mask) ==
    LET f == fit(p, s, imgs)
    IN IF f.outcome # "ok"
       THEN f
       ELSE LET t == transform(p, f.self, imgs, confounds, sample_mask)
            IN [t EXCEPT !.log = f.log \o t.log]

\* BaseMasker._check_array: the matrix needs one column per fitted map
_check_array_raises(s, ncols) == ncols # s.n_elements_[1]

\* signals_to_img_maps: a volume on the grid of the maps it is given
signals_to_img_maps(ncols, maps, mask) ==
    [kind |-> "volume", shape |-> maps.shape, affine |-> maps.affine,
     ncols |-> ncols, maps |-> maps, mask |-> mask]

\* an inverse_transform that does not check the matrix
inverse_transform_noCheck(p, s, ncols) ==
    IF ~__sklearn_is_fitted__(s)
    THEN Raise(s, "NotFittedError", <<>>)
    ELSE IF ~hasattr_n_elements_(s)
    THEN Raise(s, "AttributeError", <<>>)
    ELSE Return(s, <<Event("signals_to_img_maps", "signals", "-")>>,
                signals_to_img_maps(ncols, s.maps_img_, s.mask_img_))

inverse_transform(p, s, ncols) ==
    IF ~__sklearn_is_fitted__(s)
    THEN Raise(s, "NotFittedError", <<>>)
    ELSE IF ~hasattr_n_elements_(s)
    THEN Raise(s, "AttributeError", <<>>)
    ELSE IF _check_array_raises(s, ncols)
    THEN Raise(s, "ValueError: shape", <<Event("_check_array", "signals", "-")>>)
    ELSE Return(s, <<Event("_check_array", "signals", "-"),
                     Event("signals_to_img_maps", "signals", "-")>>,
                signals_to_img_maps(ncols, s.maps_img_, s.mask_img_))

----------------------------------------------------------------------------
(* The inputs the model draws from. *)

\* two disjoint maps
MapsDisjoint == Img(2, 0, << <<4, 0>>, <<0, 4>> >>, {})

\* two maps, one with a negative weight, that do not overlap
MapsNegative == Img(2, 0, << <<4, 0 - 4>>, <<0, 4>> >>, {})

\* two maps that overlap in their first voxel, on a shifted grid
MapsOverlap == Img(2, 1, << <<4, 4>>, <<4, 0>> >>, {})

\* one map with a NaN in its second voxel
MapsNaN == Img(2, 0, << <<4, 8>> >>, {<<1, 2>>})

MapsInputs == {MapsDisjoint, MapsNegative, MapsOverlap, MapsNaN}

\* masks: 4 is 1.0 (inside), 0 is outside
MaskFirst == Img(2, 0, << <<4, 0>> >>, {})

MaskShifted == Img(2, 1, << <<4, 4>> >>, {})

\* a mask on the shifted grid that holds the second voxel only
MaskSecondShifted == Img(2, 1, << <<0, 4>> >>, {})

MaskInputs == {None, MaskFirst, MaskShifted, MaskSecondShifted}

\* resampling_target as the caller may set it: the four documented values
\* and one that is none of them
TargetInputs == {"data", "mask", "maps", "None", "labels"}

\* data volumes: only their grid matters to the masker
DataImgs == {Img(2, a, <<>>, {}) : a \in 0..MaxAffine} \cup {Img(3, 0, <<>>, {})}

\* confounds and sample_mask as given to transform: neither, or both
ExtraInputs ==
    {[confounds |-> "None", sample_mask |-> "None"],
     [confounds |-> "confounds", sample_mask |-> "sample_mask"]}

----------------------------------------------------------------------------
(* The state machine: one masker and the calls made on it.  lastFit holds  *)
(* the attributes as the last successful fit left them; offGrid tells       *)
(* whether a transform since then resampled the maps for a volume on        *)
(* another grid; fitGrid tells how the latest fit ended and, for            *)
(* resampling_target "data", on which grid its data were.                   *)

\* the record of the last call: its arguments, the attributes before it,
\* how it ended, the trace of its steps and what it returned
\* the constructor parameters after a call that left the attributes s: the
\* thresholding of the overlap check writes into the array of maps_img_, and
\* so into the caller's maps_img when the two are one object
Aliased(p, s) ==
    IF IsImg(s.maps_img_) /\ s.maps_img_.obj = "caller"
    THEN [p EXCEPT !.maps_img = s.maps_img_]
    ELSE p

\* what the latest fit() leaves for the transforms that follow it: Absent
\* when it raised, the grid of the data it was given when resampling_target
\* is "data", None otherwise
FitGrid(p, imgs, f) ==
    IF f.outcome # "ok" THEN Absent
    ELSE IF p.resampling_target = "data" /\ IsImg(imgs) THEN Grid(imgs)
    ELSE None

\* the call resampled the maps for itself
ResampledMaps(log) ==
    \E i \in 1..Len(log) : log[i].ev = "resample" /\ log[i].img = "maps"

Call(op, imgs, confounds, sample_mask, ncols, pre, r) ==
    [op |-> op, imgs |-> imgs, confounds |-> confounds,
     sample_mask |-> sample_mask, ncols |-> ncols, pre |-> pre,
     outcome |-> r.outcome, log |-> r.log, result |-> r.result]

NoCall == Call("init", None, "None", "None", 0, Unfitted, Return(Unfitted, <<>>, None))

NoTwin == [phase |-> "off", self |-> Unfitted, call |-> NoCall]

Init ==
    /\ params \in [maps_img : MapsInputs, mask_img : MaskInputs,
                   allow_overlap : BOOLEAN, resampling_target : TargetInputs,
                   keep_masked_maps : BOOLEAN]
    /\ self = Unfitted
    /\ call = NoCall
    /\ lastFit = Unfitted
    /\ offGrid = FALSE
    /\ fitGrid = Absent
    /\ twin = NoTwin

Fit(imgs) ==
    LET r == fit(params, self, imgs)
    IN /\ self' = r.self
       /\ call' = Call("fit", imgs, "None", "None", 0, self, r)
       /\ lastFit' = IF r.outcome = "ok" THEN r.self ELSE lastFit
       /\ offGrid' = IF r.outcome = "ok" THEN FALSE ELSE offGrid
       /\ fitGrid' = FitGrid(params, imgs, r)
       /\ params' = Aliased(params, r.self)
       /\ UNCHANGED twin

Transform(imgs, confounds, sample_mask) ==
    LET r == transform(params, self, imgs, confounds, sample_mask)
    IN /\ self' = r.self
       /\ call' = Call("transform", imgs, confounds, sample_mask, 0, self, r)
       /\ offGrid' = (offGrid \/ ResampledMaps(r.log))
       /\ UNCHANGED fitGrid
       /\ params' = Aliased(params, r.self)
       /\ UNCHANGED <<lastFit, twin>>

FitTransform(imgs, confounds, sample_mask) ==
    LET r == fit_transform(params, self, imgs, confounds, sample_mask)
        f == fit(params, self, imgs)
    IN /\ self' = r.self
       /\ call' = Call("fit_transform", imgs, confounds, sample_mask, 0, self, r)
       /\ lastFit' = IF f.outcome = "ok" THEN f.self ELSE lastFit
       /\ offGrid' = IF f.outcome = "ok"
                     THEN ResampledMaps(transform(params, f.self, imgs,
                                                  confounds, sample_mask).log)
                     ELSE offGrid
       /\ fitGrid' = FitGrid(params, imgs, f)
       /\ params' = Aliased(params, r.self)
       /\ UNCHANGED twin

InverseTransform(ncols) ==
    LET r == inverse_transform(params, self, ncols)
    IN /\ self' = r.self
       /\ call' = Call("inverse_transform", None, "None", "None", ncols, self, r)
       /\ UNCHANGED <<params, lastFit, offGrid, fitGrid, twin>>

Next ==
    \/ \E imgs \in {None, Invalid} \cup DataImgs : Fit(imgs)
    \/ \E imgs \in {Invalid} \cup DataImgs, x \in ExtraInputs :
          Transform(imgs, x.confounds, x.sample_mask)
    \/ \E imgs \in {Invalid} \cup DataImgs, x \in ExtraInputs :
          FitTransform(imgs, x.confounds, x.sample_mask)
    \/ \E ncols \in 1..MaxCols : InverseTransform(ncols)

Spec == Init /\ [][Next]_vars

----------------------------------------------------------------------------
(* Two maskers with equal parameters, to compare fit_transform with fit     *)
(* followed by transform.  The first masker is self and call, the second    *)
(* is twin.  Both receive the same calls, except that where the first       *)
(* receives fit_transform(imgs, ...) the second receives fit(imgs) and      *)
(* then, if that returned, transform(imgs, ...).                            *)

PairInit ==
    /\ params \in [maps_img : MapsInputs, mask_img : MaskInputs,
                   allow_overlap : BOOLEAN, resampling_target : TargetInputs,
                   keep_masked_maps : BOOLEAN]
    /\ self = Unfitted
    /\ call = NoCall
    /\ lastFit = Unfitted
    /\ offGrid = FALSE
    /\ fitGrid = Absent
    /\ twin = [NoTwin EXCEPT !.phase = "same"]

PairFit(imgs) ==
    LET r == fit(params, self, imgs)
        t == fit(params, twin.self, imgs)
    IN /\ twin.phase \in {"same", "done"}
       /\ self' = r.self
       /\ call' = Call("fit", imgs, "None", "None", 0, self, r)
       /\ lastFit' = IF r.outcome = "ok" THEN r.self ELSE lastFit
       /\ offGrid' = IF r.outcome = "ok" THEN FALSE ELSE offGrid
       /\ fitGrid' = FitGrid(params, imgs, r)
       /\ twin' = [phase |-> "same", self |-> t.self,
                   call |-> Call("fit", imgs, "None", "None", 0, twin.self, t)]
       /\ UNCHANGED params

PairTransform(imgs, confounds, sample_mask) ==
    LET r == transform(params, self, imgs, confounds, sample_mask)
        t == transform(params, twin.self, imgs, confounds, sample_mask)
    IN /\ twin.phase \in {"same", "done"}
       /\ self' = r.self
       /\ call' = Call("transform", imgs, confounds, sample_mask, 0, self, r)
       /\ twin' = [phase |-> "same", self |-> t.self,
                   call |-> Call("transform", imgs, confounds, sample_mask, 0,
                                 twin.self, t)]
       /\ offGrid' = (offGrid \/ ResampledMaps(r.log))
       /\ UNCHANGED fitGrid
       /\ UNCHANGED <<params, lastFit>>

\* the first masker runs fit_transform, the second starts with fit
PairSplit(imgs, confounds, sample_mask) ==
    LET r == fit_transform(params, self, imgs, confounds, sample_mask)
        f == fit(params, self, imgs)
        t == fit(params, twin.self, imgs)
    IN /\ twin.phase \in {"same", "done"}
       /\ self' = r.self
       /\ call' = Call("fit_transform", imgs, confounds, sample_mask, 0, self, r)
       /\ lastFit' = IF f.outcome = "ok" THEN f.self ELSE lastFit
       /\ offGrid' = IF f.outcome = "ok"
                     THEN ResampledMaps(transform(params, f.self, imgs,
                                                  confounds, sample_mask).log)
                     ELSE offGrid
       /\ fitGrid' = FitGrid(params, imgs, f)
       /\ twin' = [phase |-> "split", self |-> t.self,
                   call |-> Call("fit", imgs, confounds, sample_mask, 0,
                                 twin.self, t)]
       /\ UNCHANGED params

\* the second masker goes on with transform, unless its fit raised
PairJoin ==
    LET t == transform(params, twin.self, twin.call.imgs, twin.call.confounds,
                       twin.call.sample_mask)
    IN /\ twin.phase = "split"
       /\ twin' = IF twin.call.outcome # "ok"
                  THEN [twin EXCEPT !.phase = "done"]
                  ELSE [phase |-> "done", self |-> t.self,
                        call |-> Call("transform", twin.call.imgs,
                                      twin.call.confounds, twin.call.sample_mask,
                                      0, twin.self, t)]
       /\ UNCHANGED <<params, self, call, lastFit, offGrid, fitGrid>>

PairNext ==
    \/ \E imgs \in {None, Invalid} \cup DataImgs : PairFit(imgs)
    \/ \E imgs \in {Invalid} \cup DataImgs, x \in ExtraInputs :
          PairTransform(imgs, x.confounds, x.sample_mask)
    \/ \E imgs \in {Invalid} \cup DataImgs, x \in ExtraInputs :
          PairSplit(imgs, x.confounds, x.sample_mask)
    \/ PairJoin

PairSpec == PairInit /\ [][PairNext]_vars

----------------------------------------------------------------------------
(* Two maskers built from the same maps and mask objects, called in any     *)
(* order.  The first masker is self, the second twin.self; params are the   *)
(* caller's objects, which both were constructed with.  twin.solo keeps,    *)
(* for each masker, a masker that receives the same calls alone, with the   *)
(* caller's objects as they are when no other masker uses them; twin.call   *)
(* is the record of the last call as that masker made it.                   *)

\* the volumes the two maskers are called with
ShareImgs == {Img(2, 0, <<>>, {}), Img(2, 1, <<>>, {})}

Solo(p) == [self |-> Unfitted, params |-> p]

ShareInit ==
    /\ params \in [maps_img : {MapsNegative, MapsNaN}, mask_img : {None, MaskFirst},
                   allow_overlap : BOOLEAN, resampling_target : {"data", "None"},
                   keep_masked_maps : {TRUE}]
    /\ self = Unfitted
    /\ call = NoCall
    /\ lastFit = Unfitted
    /\ offGrid = FALSE
    /\ fitGrid = Absent
    /\ twin = [phase |-> "share", who |-> "A", self |-> Unfitted, call |-> NoCall,
               solo |-> [A |-> Solo(params), B |-> Solo(params)]]

\* the attributes of a masker other than the one called, after the call left
\* the caller's objects as p: it sees what was written into an object it holds
Seen(p, s) ==
    IF IsImg(s.maps_img_) /\ s.maps_img_.obj = "caller"
    THEN [s EXCEPT !.maps_img_ = p.maps_img]
    ELSE s

\* masker who ends a call with r, while the same call made alone ends with q
ShareStep(who, op, imgs, confounds, sample_mask, ncols, r, q) ==
    LET me == IF who = "A" THEN self ELSE twin.self
        other == IF who = "A" THEN twin.self ELSE self
        p == Aliased(params, r.self)
    IN /\ twin.phase = "share"
       /\ params' = p
       /\ self' = IF who = "A" THEN r.self ELSE Seen(p, other)
       /\ call' = Call(op, imgs, confounds, sample_mask, ncols, me, r)
       /\ twin' = [twin EXCEPT
                     !.who = who,
                     !.self = IF who = "A" THEN Seen(p, other) ELSE r.self,
                     !.call = Call(op, imgs, confounds, sample_mask, ncols,
                                   twin.solo[who].self, q),
                     !.solo[who] = [self |-> q.self,
                                    params |-> Aliased(twin.solo[who].params,
                                                       q.self)]]
       /\ UNCHANGED <<lastFit, offGrid, fitGrid>>

ShareFit(who, imgs) ==
    LET me == IF who = "A" THEN self ELSE twin.self
        alone == twin.solo[who]
    IN ShareStep(who, "fit", imgs, "None", "None", 0,
                 fit(params, me, imgs),
                 fit(alone.params, alone.self, imgs))

ShareTransform(who, imgs) ==
    LET me == IF who = "A" THEN self ELSE twin.self
        alone == twin.solo[who]
    IN ShareStep(who, "transform", imgs, "None", "None", 0,
                 transform(params, me, imgs, "None", "None"),
                 transform(alone.params, alone.self, imgs, "None", "None"))

ShareInverseTransform(who, ncols) ==
    LET me == IF who = "A" THEN self ELSE twin.self
        alone == twin.solo[who]
    IN ShareStep(who, "inverse_transform", None, "None", "None", ncols,
                 inverse_transform(params, me, ncols),
                 inverse_transform(alone.params, alone.self, ncols))

ShareNext ==
    \/ \E who \in {"A", "B"}, imgs \in {None} \cup ShareImgs : ShareFit(who, imgs)
    \/ \E who \in {"A", "B"}, imgs \in ShareImgs : ShareTransform(who, imgs)
    \/ \E who \in {"A", "B"}, ncols \in {1, 2} : ShareInverseTransform(who, ncols)

ShareSpec == ShareInit /\ [][ShareNext]_vars

----------------------------------------------------------------------------
(* NiftiMapsMasker.generate_report and NiftiMapsMasker._reporting           *)

\* displayed_maps as the caller may give it: its type, and its value as an
\* integer (n), a list or array (l) or a string (t)
Displayed(type, n, l, t) == [type |-> type, n |-> n, l |-> l, t |-> t]

IntDisplayed(n) == Displayed("int", n, <<>>, "")

ListDisplayed(l) == Displayed("list", 0, l, "")

StrDisplayed(t) == Displayed("str", 0, <<>>, t)

\* np.array(displayed_maps).dtype != int: a list or array of integers has the
\* integer dtype, unless it is empty
not_integer(d) ==
    d.type = "float" \/ (d.type = "list" /\ d.l = <<>>)

\* the check of generate_report
displayed_maps_raises(d) ==
    \/ d.type \notin {"list", "int", "str", "float"}
    \/ (d.type = "str" /\ d.t # "all")
    \/ not_integer(d)

\* range(n) as a sequence of map indices (the first map has index 0)
range(n) == [i \in 1..n |-> i - 1]

\* max() of a non-empty sequence of integers
max(l) == CHOOSE x \in {l[i] : i \in 1..Len(l)} : \A i \in 1..Len(l) : l[i] <= x

\* what _reporting found: how it ended, its trace, the value of
\* _report_content["displayed_maps"] and the indices given to index_img
Report(outcome, log, displayed, plotted) ==
    [kind |-> "report", outcome |-> outcome, log |-> log,
     displayed |-> displayed, plotted |-> plotted]

\* the loop over maps_to_be_displayed: the components handed to index_img, up
\* to the first one that the last axis of the maps cannot be indexed with
plot_maps(n_maps, l) ==
    LET bad == {i \in 1..Len(l) : l[i] \notin (0 - n_maps)..(n_maps - 1)}
    IN IF bad = {}
       THEN l
       ELSE SubSeq(l, 1, CHOOSE i \in bad : \A j \in bad : i <= j)

\* a _reporting that warns already when as many maps are asked as exist
_reporting_int_warnsAtEqual(n_maps, d) ==
    IF n_maps <= d.n
    THEN Report("ok", <<Event("warn", "displayed_maps", "-")>>, range(n_maps),
                plot_maps(n_maps, range(n_maps)))
    ELSE Report("ok", <<>>, range(d.n), plot_maps(n_maps, range(d.n)))

\* displayed_maps is an integer
_reporting_int(n_maps, d) ==
    IF n_maps < d.n
    THEN Report("ok", <<Event("warn", "displayed_maps", "-")>>, range(n_maps),
                plot_maps(n_maps, range(n_maps)))
    ELSE Report("ok", <<>>, range(d.n), plot_maps(n_maps, range(d.n)))

\* displayed_maps is a list or an array of map indices
_reporting_list(n_maps, d) ==
    IF max(d.l) > n_maps
    THEN Report("ValueError: displayed_maps", <<>>, <<>>, <<>>)
    ELSE Report("ok", <<>>, d.l, plot_maps(n_maps, d.l))

\* reporting_data is self._reporting_data, d is self.displayed_maps
_reporting(reporting_data, d) ==
    IF reporting_data = None
    THEN Report("ok", <<>>, <<>>, <<>>)
    ELSE LET n_maps == NVolumes(reporting_data.maps_image)
             r == IF d.type = "int" THEN _reporting_int(n_maps, d)
                  ELSE IF d.type = "list" THEN _reporting_list(n_maps, d)
                  ELSE Report("ok", <<>>, range(n_maps),
                              plot_maps(n_maps, range(n_maps)))
         IN IF r.outcome = "ok" /\ reporting_data.img = None
            THEN [r EXCEPT !.log = Append(@, Event("warn", "no_img", "-"))]
            ELSE r

generate_report(reporting_data, d) ==
    IF displayed_maps_raises(d)
    THEN Report("TypeError", <<>>, <<>>, <<>>)
    ELSE _reporting(reporting_data, d)

\* self._reporting_data as fit() leaves it
fit_reporting_data(p, s, imgs) ==
    IF p.reports THEN [maps_image |-> s.maps_img_, img |-> imgs] ELSE None

----------------------------------------------------------------------------
(* One masker and the reports asked of it.  twin.reporting_data is          *)
(* self._reporting_data, Absent before the first fit that reached it;       *)
(* twin.displayed_maps is the argument of the last generate_report.         *)

DisplayedInputs ==
    {IntDisplayed(n) : n \in (0 - 1)..MaxDisplayed}
      \cup {ListDisplayed(<<i>>) : i \in (0 - 1)..MaxDisplayed}
      \cup {ListDisplayed(<<i, j>>) : i, j \in 0..MaxDisplayed}
      \cup {ListDisplayed(<<>>), StrDisplayed("all"), StrDisplayed("some"),
            Displayed("float", 0, <<>>, ""), Displayed("dict", 0, <<>>, "")}

ReportInit ==
    /\ params \in [maps_img : {MapsDisjoint, MapsNaN}, mask_img : {None},
                   allow_overlap : {TRUE}, resampling_target : {"data"},
                   keep_masked_maps : {TRUE}, reports : BOOLEAN]
    /\ self = Unfitted
    /\ call = NoCall
    /\ lastFit = Unfitted
    /\ offGrid = FALSE
    /\ fitGrid = Absent
    /\ twin = [phase |-> "report", reporting_data |-> Absent,
               displayed_maps |-> IntDisplayed(0)]

ReportFit(imgs) ==
    LET r == fit(params, self, imgs)
    IN /\ twin.phase = "report"
       /\ self' = r.self
       /\ call' = Call("fit", imgs, "None", "None", 0, self, r)
       /\ lastFit' = IF r.outcome = "ok" THEN r.self ELSE lastFit
       /\ fitGrid' = FitGrid(params, imgs, r)
       /\ twin' = IF r.outcome = "ok"
                  THEN [twin EXCEPT !.reporting_data =
                                       fit_reporting_data(params, r.self, imgs)]
                  ELSE twin
       /\ UNCHANGED <<params, offGrid>>

\* html_report.generate_report calls _reporting on a fitted masker
GenerateReport(d) ==
    LET r == generate_report(twin.reporting_data, d)
    IN /\ twin.phase = "report"
       /\ __sklearn_is_fitted__(self)
       /\ twin.reporting_data # Absent
       /\ call' = Call("generate_report", None, "None", "None", 0, self,
                       [outcome |-> r.outcome, log |-> r.log, result |-> r])
       /\ twin' = [twin EXCEPT !.displayed_maps = d]
       /\ UNCHANGED <<params, self, lastFit, offGrid, fitGrid>>

ReportNext ==
    \/ \E imgs \in {None, Invalid} \cup ShareImgs : ReportFit(imgs)
    \/ \E d \in DisplayedInputs : GenerateReport(d)

ReportSpec == ReportInit /\ [][ReportNext]_vars

----------------------------------------------------------------------------
(* save_glm_to_bids as its tests fix it: where each expected file is        *)
(* asserted to exist.  A prefix is the caller's argument: whether it is a   *)
(* string, and its characters.  A path is the sub-directory of out_dir      *)
(* (<<>>: out_dir itself, as pathlib joins "") and the file name, the       *)
(* characters of the prefix followed by the expected file name ending.      *)

Str(chars) == [str |-> TRUE, chars |-> chars]

\* a prefix that is not a string, such as the integer 1
NotStr == [str |-> FALSE, chars |-> <<>>]

Path(sub, chars, fname) == [sub |-> sub, file |-> Append(chars, fname)]

\* str.endswith("_")
endswith_(chars) == Len(chars) > 0 /\ chars[Len(chars)] = "_"

\* str.startswith("sub-")
startswith_sub(chars) ==
    Len(chars) >= 4 /\ SubSeq(chars, 1, 4) = <<"s", "u", "b", "-">>

\* str.split("_")[0]
RECURSIVE split_first(_)
split_first(chars) ==
    IF chars = <<>> \/ Head(chars) = "_"
    THEN <<>>
    ELSE <<Head(chars)>> \o split_first(Tail(chars))

\* sub_prefix = prefix.split("_")[0] if prefix.startswith("sub-") else ""
sub_prefix(chars) ==
    IF startswith_sub(chars) THEN split_first(chars) ELSE <<>>

\* test_save_glm_to_bids: tmpdir / sub_prefix / f"{prefix}_{fname}"
test_save_glm_to_bids(prefix, fname) ==
    Path(sub_prefix(prefix.chars), prefix.chars \o <<"_">>, fname)

\* an expectation that always adds the underscore
contrast_definitions_alwaysUnderscore(prefix, fname) ==
    LET str == IF ~prefix.str THEN <<>> ELSE prefix.chars
        pre == IF str # <<>> THEN str \o <<"_">> ELSE str
    IN Path(sub_prefix(pre), pre, fname)

\* test_save_glm_to_bids_contrast_definitions:
\* tmpdir / sub_prefix / f"{prefix}{fname}"
test_save_glm_to_bids_contrast_definitions(prefix, fname) ==
    LET str == IF ~prefix.str THEN <<>> ELSE prefix.chars
        pre == IF str # <<>> /\ ~endswith_(str) THEN str \o <<"_">> ELSE str
    IN Path(sub_prefix(pre), pre, fname)

\* test_save_glm_to_bids_infer_filenames_override:
\* tmp_path / "output" / sub_prefix / f"{prefix}{fname}"
test_save_glm_to_bids_infer_filenames_override(prefix, fname) ==
    LET pre == IF prefix.chars # <<>> /\ ~endswith_(prefix.chars)
               THEN prefix.chars \o <<"_">>
               ELSE prefix.chars
    IN Path(sub_prefix(pre), pre, fname)

----------------------------------------------------------------------------
(* The calls of save_glm_to_bids.  twin holds the last call: the test whose *)
(* expectation it is, the prefix, the file name ending and the path.        *)

Sub01 == <<"s", "u", "b", "-", "0", "1">>

Ses01 == <<"s", "e", "s", "-", "0", "1">>

TaskNback == <<"t", "a", "s", "k", "-", "n", "b", "a", "c", "k">>

Foo == <<"f", "o", "o">>

\* the prefixes test_save_glm_to_bids runs with
GlmPrefixes ==
    {Str(Sub01 \o <<"_">> \o Ses01 \o <<"_">> \o TaskNback),
     Str(Sub01 \o <<"_">> \o TaskNback), Str(TaskNback)}

\* the prefixes test_save_glm_to_bids_infer_filenames_override runs with
OverridePrefixes == {Str(<<>>), Str(Sub01), Str(Foo \o <<"_">>)}

\* all sequences over S of length at most n
RECURSIVE SeqsUpTo(_, _)
SeqsUpTo(S, n) ==
    IF n = 0
    THEN {<<>>}
    ELSE LET shorter == SeqsUpTo(S, n - 1)
         IN shorter \cup {Append(t, c) : t \in shorter, c \in S}

\* the prefixes test_save_glm_to_bids_contrast_definitions runs with, and
\* further strings its expectation is written for
ContrastPrefixes ==
    {Str(Sub01 \o <<"_">> \o Ses01 \o <<"_">> \o TaskNback),
     Str(Sub01 \o <<"_">> \o TaskNback \o <<"_">>), NotStr}
      \cup {Str(h \o t) : h \in {<<>>, <<"s", "u", "b", "-">>, <<"s", "u", "b">>, Foo},
                          t \in SeqsUpTo({"1", "_"}, MaxPrefix)}

\* file name endings the tests expect
FilenameEndings == {"mask.nii.gz", "design.tsv", "statmap.json"}

Saved(test, prefix, fname, path) ==
    [phase |-> "bids", test |-> test, prefix |-> prefix, fname |-> fname,
     path |-> path]

BidsInit ==
    /\ params = [maps_img |-> None, mask_img |-> None, allow_overlap |-> TRUE,
                 resampling_target |-> "None", keep_masked_maps |-> TRUE]
    /\ self = Unfitted
    /\ call = NoCall
    /\ lastFit = Unfitted
    /\ offGrid = FALSE
    /\ fitGrid = Absent
    /\ twin = Saved("none", NotStr, "", Path(<<>>, <<>>, ""))

SaveGlm(prefix, fname) ==
    /\ twin.phase = "bids"
    /\ twin' = Saved("glm", prefix, fname, test_save_glm_to_bids(prefix, fname))
    /\ UNCHANGED <<params, self, call, lastFit, offGrid, fitGrid>>

SaveGlmContrastDefinitions(prefix, fname) ==
    /\ twin.phase = "bids"
    /\ twin' = Saved("contrast_definitions", prefix, fname,
                     test_save_glm_to_bids_contrast_definitions(prefix, fname))
    /\ UNCHANGED <<params, self, call, lastFit, offGrid, fitGrid>>

SaveGlmInferFilenamesOverride(prefix, fname) ==
    /\ twin.phase = "bids"
    /\ twin' = Saved("infer_filenames_override", prefix, fname,
                     test_save_glm_to_bids_infer_filenames_override(prefix, fname))
    /\ UNCHANGED <<params, self, call, lastFit, offGrid, fitGrid>>

BidsNext ==
    \E fname \in FilenameEndings :
        \/ \E prefix \in GlmPrefixes : SaveGlm(prefix, fname)
        \/ \E prefix \in ContrastPrefixes : SaveGlmContrastDefinitions(prefix, fname)
        \/ \E prefix \in OverridePrefixes : SaveGlmInferFilenamesOverride(prefix, fname)

BidsSpec == BidsInit /\ [][BidsNext]_vars

----------------------------------------------------------------------------
(* self._cache: the memoisation of resample_img and filter_and_extract.  A  *)
(* store is a set of entries: the function, the key, the value it returned  *)
(* and, to tell what a reuse crossed, the call it was computed in (ctx) and *)
(* the verbose of that call.                                                *)

\* an argument is hashed by its content, whichever object holds it
content(x) == IF IsImg(x) THEN [x EXCEPT !.obj = "own"] ELSE x

\* the arguments of self._cache(resample_img)(...)
resample_args(img, interpolation, ref) ==
    [img |-> content(img), interpolation |-> interpolation,
     target_shape |-> ref.shape, target_affine |-> ref.affine,
     copy_header |-> TRUE, force_resample |-> FALSE]

\* params = get_params(NiftiMapsMasker, self, ignore=["resampling_target"])
\* with target_shape and target_affine added
extract_params(p, target) ==
    [maps_img |-> content(p.maps_img), mask_img |-> content(p.mask_img),
     allow_overlap |-> p.allow_overlap,
     keep_masked_maps |-> p.keep_masked_maps, target |-> target]

\* the arguments of self._cache(filter_and_extract, ignore=[...])(...), read
\* from what the call is made with
extract_args(p, signals, verbose) ==
    [imgs |-> content(signals.imgs), maps_img_ |-> content(signals.maps),
     mask_img_ |-> content(signals.mask),
     keep_masked_maps |-> p.keep_masked_maps,
     params |-> extract_params(p, signals.target),
     confounds |-> signals.confounds, sample_mask |-> signals.sample_mask,
     memory |-> "memory", memory_level |-> 1, verbose |-> verbose]

\* an ignore list that also leaves sample_mask out of the key
extract_ignore_sampleMask == {"verbose", "memory", "memory_level", "sample_mask"}

\* ignore=["verbose", "memory", "memory_level"]
extract_ignore == {"verbose", "memory", "memory_level"}

\* no ignore list is given for resample_img
resample_ignore == {}

\* the key of a memoised call: its arguments without the ignored ones
cache_key(args, ignore) == [a \in (DOMAIN args) \ ignore |-> args[a]]

\* what a call of a memoised function is part of: the images, maps, mask and
\* the other inputs of the masker's call, and for a resampling the image that
\* is resampled and the interpolation
Ctx(imgs, maps, mask, keep, target, confounds, sample_mask, img, interp) ==
    [imgs |-> content(imgs), maps |-> content(maps), mask |-> content(mask),
     keep_masked_maps |-> keep, target |-> target,
     confounds |-> confounds, sample_mask |-> sample_mask,
     resampled |-> content(img), interpolation |-> interp]

\* self._cache(func, ignore)(args): the stored value when the store has an
\* entry under the key, else the value the function computes, which is then
\* stored.  reused names the entry a hit took its value from, with the call
\* that takes it.
_cache(store, func, ignore, args, computed, ctx, verbose) ==
    LET key == cache_key(args, ignore)
        hit == {e \in store : e.func = func /\ e.key = key}
        entry == CHOOSE e \in hit : TRUE
    IN IF hit # {}
       THEN [value |-> entry.value, store |-> store, hit |-> TRUE,
             reused |-> {[func |-> func, then |-> entry.ctx, now |-> ctx,
                          then_verbose |-> entry.verbose,
                          now_verbose |-> verbose]}]
       ELSE [value |-> content(computed),
             store |-> store \cup {[func |-> func, key |-> key,
                                    value |-> content(computed), ctx |-> ctx,
                                    verbose |-> verbose]},
             hit |-> FALSE, reused |-> {}]

\* a step that self._cache is not asked for: the value as it is
NotCached(value, store) ==
    [value |-> value, store |-> store, hit |-> FALSE, reused |-> {}]

\* the trace entry of a memoised step: the step itself, or the reuse
Memoised(c, ev) == IF c.hit THEN Event("cache", ev.img, ev.interpolation) ELSE ev

\* the attributes fit() leaves when the resampled maps are the value c;
\* n_elements_ is read from them
fit_memory_self(s, c) ==
    IF hasattr_n_elements_(s)
    THEN [s EXCEPT !.maps_img_ = c.value, !.n_elements_ = <<NVolumes(c.value)>>]
    ELSE [s EXCEPT !.maps_img_ = c.value]

\* the fit f with its resampling of the maps, the steps at of its trace,
\* done through self._cache with the outcome c
fit_memory_done(f, at, c) ==
    [t |-> [f EXCEPT !.self = fit_memory_self(f.self, c),
                     !.log = [i \in 1..Len(f.log) |->
                                 IF i \in at THEN Memoised(c, f.log[i])
                                 ELSE f.log[i]]],
     store |-> c.store, reused |-> c.reused]

\* f is what fit() does, loaded the maps it starts from
fit_memory_resample(p, imgs, f, loaded, store, verbose) ==
    IF \A i \in 1..Len(f.log) : f.log[i] # Event("resample", "maps", "linear")
    THEN [t |-> f, store |-> store, reused |-> {}]
    ELSE fit_memory_done(
             f, {i \in 1..Len(f.log) : f.log[i] = Event("resample", "maps", "linear")},
             _cache(store, "resample_img", resample_ignore,
                    resample_args(loaded, "linear", f.self.maps_img_),
                    f.self.maps_img_,
                    Ctx(imgs, loaded, _load_mask(p), p.keep_masked_maps,
                        Grid(f.self.maps_img_), "None", "None", loaded, "linear"),
                    verbose))

\* fit() of a masker with a memory: the resampling of the maps goes through
\* self._cache, the resampling of the mask does not
fit_memory(p, s, imgs, store, verbose) ==
    fit_memory_resample(p, imgs, fit(p, s, imgs), fit_load(p, s).maps_img_,
                        store, verbose)

\* the maps of a transform: resampled through self._cache when they are not
\* on the grid of imgs; w is what the resampling computes
transform_memory_maps(p, s, imgs, confounds, sample_mask, store, verbose, w) ==
    IF ~check_same_fov(imgs, s.maps_img_)
    THEN _cache(store, "resample_img", resample_ignore,
                resample_args(s.maps_img_, "linear", imgs), w.maps,
                Ctx(imgs, s.maps_img_, s.mask_img_, p.keep_masked_maps,
                    Grid(imgs), confounds, sample_mask, s.maps_img_, "linear"),
                verbose)
    ELSE NotCached(s.maps_img_, store)

\* the mask of a transform, likewise
transform_memory_mask(p, s, imgs, confounds, sample_mask, store, verbose, w) ==
    IF s.mask_img_ # None /\ ~check_same_fov(imgs, s.mask_img_)
    THEN _cache(store, "resample_img", resample_ignore,
                resample_args(s.mask_img_, "nearest", imgs), w.mask,
                Ctx(imgs, s.maps_img_, s.mask_img_, p.keep_masked_maps,
                    Grid(imgs), confounds, sample_mask, s.mask_img_, "nearest"),
                verbose)
    ELSE NotCached(s.mask_img_, store)

\* the images a transform goes on with, its trace and the memory after the
\* two resamplings cm and ck
transform_memory_resampled(s, imgs, cm, ck) ==
    [maps |-> cm.value,
     fresh |-> ~check_same_fov(imgs, s.maps_img_),
     mask |-> ck.value,
     log |-> (IF ~check_same_fov(imgs, s.maps_img_)
              THEN <<Event("warn", "maps", "-"),
                     Memoised(cm, Event("resample", "maps", "linear"))>>
              ELSE <<>>)
               \o (IF s.mask_img_ # None /\ ~check_same_fov(imgs, s.mask_img_)
                   THEN <<Event("warn", "mask", "-"),
                          Memoised(ck, Event("resample", "mask", "nearest"))>>
                   ELSE <<>>),
     store |-> ck.store,
     reused |-> cm.reused \cup ck.reused]

\* the mask is resampled after the maps, with the memory the maps left
transform_memory_after_maps(p, s, imgs, confounds, sample_mask, verbose, w, cm) ==
    transform_memory_resampled(
        s, imgs, cm,
        transform_memory_mask(p, s, imgs, confounds, sample_mask, cm.store,
                              verbose, w))

\* the resampling of transform_single_imgs through self._cache
transform_resample_memory(p, s, imgs, confounds, sample_mask, store, verbose) ==
    transform_memory_after_maps(
        p, s, imgs, confounds, sample_mask, verbose, transform_resample(s, imgs),
        transform_memory_maps(p, s, imgs, confounds, sample_mask, store, verbose,
                              transform_resample(s, imgs)))

\* the transform t with its call of filter_and_extract done through
\* self._cache with the outcome c
extract_memory_done(t, c, reused) ==
    [t |-> [t EXCEPT !.result = c.value,
                     !.log = [i \in 1..Len(t.log) |->
                                 IF i = Len(t.log) THEN Memoised(c, t.log[i])
                                 ELSE t.log[i]]],
     store |-> c.store, reused |-> reused \cup c.reused]

\* the call of filter_and_extract through self._cache, at the end of a
\* transform t that got that far
extract_memory(p, t, store, reused, verbose) ==
    IF t.outcome # "ok"
    THEN [t |-> t, store |-> store, reused |-> reused]
    ELSE extract_memory_done(
             t,
             _cache(store, "filter_and_extract", extract_ignore,
                    extract_args(p, t.result, verbose), t.result,
                    Ctx(t.result.imgs, t.result.maps, t.result.mask,
                        p.keep_masked_maps, t.result.target, t.result.confounds,
                        t.result.sample_mask, None, "-"),
                    verbose),
             reused)

\* a transform that resamples to the data: w is the outcome of the resampling
transform_memory_data(p, s, imgs, confounds, sample_mask, verbose, w) ==
    extract_memory(p,
                   transform_extract(p, s, imgs, w,
                                     <<Event("load", "data", "-")>> \o w.log,
                                     confounds, sample_mask),
                   w.store, w.reused, verbose)

\* transform_single_imgs of a masker with a memory
transform_memory(p, s, imgs, confounds, sample_mask, store, verbose) ==
    IF /\ p.resampling_target = "data"
       /\ __sklearn_is_fitted__(s)
       /\ s.mask_img_ # Absent
       /\ ~check_niimg_raises(imgs)
    THEN transform_memory_data(
             p, s, imgs, confounds, sample_mask, verbose,
             transform_resample_memory(p, s, imgs, confounds, sample_mask,
                                       store, verbose))
    ELSE extract_memory(p, transform(p, s, imgs, confounds, sample_mask),
                        store, {}, verbose)

----------------------------------------------------------------------------
(* A masker with a memory (self, call) and a masker with the pass-through   *)
(* wrapper (twin.self, twin.call), constructed alike and given the same     *)
(* calls.  twin.store is the memory, twin.reused what the last call took    *)
(* from it, twin.calls the number of calls made.                            *)

\* the volumes the maskers are called with: two of them on one grid
CacheImgs ==
    {Img(2, 0, <<>>, {}), Img(2, 1, <<>>, {}), Img(2, 1, << <<4, 0>> >>, {})}

CacheInit ==
    /\ params \in [maps_img : {MapsNegative}, mask_img : {None, MaskShifted},
                   allow_overlap : BOOLEAN, resampling_target : {"data", "maps"},
                   keep_masked_maps : {TRUE}]
    /\ self = Unfitted
    /\ call = NoCall
    /\ lastFit = Unfitted
    /\ offGrid = FALSE
    /\ fitGrid = Absent
    /\ twin = [phase |-> "cache", self |-> Unfitted, call |-> NoCall,
               store |-> {}, reused |-> {}, calls |-> 0]

\* one call on both maskers: m is what it does with the memory, r without
CacheCall(op, imgs, confounds, sample_mask, m, r) ==
    /\ twin.phase = "cache"
    /\ twin.calls < MaxCalls
    /\ self' = m.t.self
    /\ call' = Call(op, imgs, confounds, sample_mask, 0, self, m.t)
    /\ twin' = [twin EXCEPT !.self = r.self,
                            !.call = Call(op, imgs, confounds, sample_mask, 0,
                                          twin.self, r),
                            !.store = m.store, !.reused = m.reused,
                            !.calls = @ + 1]
    /\ params' = Aliased(params, m.t.self)
    /\ UNCHANGED <<lastFit, offGrid, fitGrid>>

CacheFit(imgs, verbose) ==
    CacheCall("fit", imgs, "None", "None",
              fit_memory(params, self, imgs, twin.store, verbose),
              fit(params, twin.self, imgs))

CacheTransform(imgs, confounds, sample_mask, verbose) ==
    CacheCall("transform", imgs, confounds, sample_mask,
              transform_memory(params, self, imgs, confounds, sample_mask,
                               twin.store, verbose),
              transform(params, twin.self, imgs, confounds, sample_mask))

CacheNext ==
    \E verbose \in 0..1 :
        \/ \E imgs \in {None} \cup CacheImgs : CacheFit(imgs, verbose)
        \/ \E imgs \in CacheImgs, sample_mask \in {"None", "sample_mask"} :
              CacheTransform(imgs, "None", sample_mask, verbose)

CacheSpec == CacheInit /\ [][CacheNext]_vars

----------------------------------------------------------------------------
(* Properties of the masker. *)

HasEvent(log, ev, img) ==
    \E i \in 1..Len(log) : log[i].ev = ev /\ log[i].img = img

Resamples(log) == \E i \in 1..Len(log) : log[i].ev = "resample"

\* C1: transform_single_imgs() never changes the fitted state: after the
\* call, whether it returned or raised, maps_img_, mask_img_ and n_elements_
\* hold what they held before it.
TransformKeepsFittedState ==
    call.op = "transform" => self = call.pre

\* C2: a fit() call that raises leaves the previously fitted state exactly
\* as it was: on a masker that held what its last successful fit() left, the
\* attributes after a raising fit() are still those of that fit().
RaisingFitKeepsFittedState ==
    (call.op = "fit" /\ call.outcome # "ok" /\ __sklearn_is_fitted__(call.pre)
       /\ call.pre = lastFit)
        => self = lastFit

\* C3: on a masker on which no fit() has completed, transform and
\* inverse_transform fail with the not-fitted error as their first step:
\* nothing is loaded, checked or computed and no attribute changes.
NotFittedFailsFirst ==
    (call.op \in {"transform", "inverse_transform"} /\ lastFit = Unfitted)
        => /\ call.outcome = "NotFittedError"
           /\ call.log = <<>>
           /\ call.result = None
           /\ self = call.pre

\* a transform on a masker whose only fit() raised after loading the maps
NotFittedAfterRaisingFit ==
    /\ call.op = "transform"
    /\ lastFit = Unfitted
    /\ hasattr_maps_img_(call.pre)
    /\ call.outcome = "NotFittedError"

\* C4: fit() with resampling_target "mask" and no mask raises before any
\* image is loaded, copied or resampled and leaves the fitted attributes as
\* they were.
MaskTargetNeedsMask ==
    (call.op = "fit" /\ params.resampling_target = "mask" /\ params.mask_img = None)
        => /\ call.outcome = "ValueError: no mask"
           /\ call.log = <<>>
           /\ self = call.pre

FitRaisedForMissingMask ==
    /\ call.op = "fit"
    /\ params.resampling_target = "mask"
    /\ params.mask_img = None
    /\ call.outcome = "ValueError: no mask"

\* C5: fit() raises the invalid-resampling_target error exactly when
\* resampling_target is none of "data", "mask", "maps" and None, and then it
\* has loaded no image and changed no fitted attribute.
OnlyFourTargets ==
    call.op = "fit"
        => /\ (call.outcome = "ValueError: invalid resampling_target")
                <=> (params.resampling_target \notin {"data", "mask", "maps", "None"})
           /\ (params.resampling_target \notin {"data", "mask", "maps", "None"})
                => (call.log = <<>> /\ self = call.pre)

\* fit() has raised for a resampling_target that is none of the four
FitRaisedForUnknownTarget ==
    /\ call.op = "fit"
    /\ params.resampling_target = "labels"
    /\ call.outcome = "ValueError: invalid resampling_target"

\* C6: with resampling_target None nothing is resampled; fit() succeeds only
\* if the maps, the mask (when present) and the data (when given) share one
\* grid, and raises otherwise; transform raises, before the overlap check and
\* the extraction, unless the volume shares the grid of the fitted maps and
\* of the fitted mask (when present).
GivenImages ==
    {params.maps_img}
      \cup (IF params.mask_img # None THEN {params.mask_img} ELSE {})
      \cup (IF IsImg(call.imgs) THEN {call.imgs} ELSE {})

OneGrid(images) == \A a \in images : \A b \in images : Grid(a) = Grid(b)

NoneNeverResamples ==
    params.resampling_target = "None"
        => /\ ~Resamples(call.log)
           /\ (call.op = "fit" /\ call.imgs # Invalid)
                => /\ (call.outcome = "ok") <=> OneGrid(GivenImages)
                   /\ call.outcome \in {"ok", "ValueError: field of view"}
           /\ (call.op = "transform" /\ __sklearn_is_fitted__(call.pre)
                 /\ IsImg(call.imgs))
                => LET shared ==
                         /\ Grid(call.imgs) = Grid(call.pre.maps_img_)
                         /\ call.pre.mask_img_ # None
                              => Grid(call.imgs) = Grid(call.pre.mask_img_)
                   IN /\ (call.outcome = "ValueError: field of view") <=> ~shared
                      /\ ~shared => /\ ~HasEvent(call.log, "overlap_check", "maps")
                                    /\ ~HasEvent(call.log, "filter_and_extract", "data")
                                    /\ call.result = None

\* a transform refused because the volume is on another grid than the maps
NoneRefusedOtherGrid ==
    /\ params.resampling_target = "None"
    /\ call.op = "transform"
    /\ __sklearn_is_fitted__(call.pre)
    /\ IsImg(call.imgs)
    /\ Grid(call.imgs) # Grid(call.pre.maps_img_)
    /\ call.outcome = "ValueError: field of view"

\* C7 as stated: after every successful fit(), for every resampling_target
\* and whether or not data was passed, maps_img_ and mask_img_ (when there is
\* a mask) lie on one grid.
FitSharesGrid ==
    (call.op = "fit" /\ call.outcome = "ok" /\ self.mask_img_ # None)
        => Grid(self.maps_img_) = Grid(self.mask_img_)

\* C7 as amended: after every successful fit(), unless resampling_target is
\* "data" and no data was passed to fit(), maps_img_ and mask_img_ (when
\* there is a mask) lie on one grid.
FitSharesGridGivenReference ==
    (call.op = "fit" /\ call.outcome = "ok" /\ self.mask_img_ # None
       /\ ~(params.resampling_target = "data" /\ call.imgs = None))
        => Grid(self.maps_img_) = Grid(self.mask_img_)

\* a fit() that had to resample the mask to bring it to the maps' grid
FitBroughtMaskToGrid ==
    /\ call.op = "fit"
    /\ call.outcome = "ok"
    /\ self.mask_img_ # None
    /\ Grid(params.maps_img) # Grid(params.mask_img)
    /\ HasEvent(call.log, "resample", "mask")
    /\ Grid(self.maps_img_) = Grid(self.mask_img_)

\* C8: every resampling of the maps, at fit or at transform time, is linear
\* and every resampling of the mask is nearest-neighbour; the fitted mask
\* and the mask handed to the extraction stay binary.
IsBinary(mask) == \A v \in 1..mask.shape : mask.data[1][v] \in {0, 4}

InterpolationByKind ==
    /\ \A i \in 1..Len(call.log) :
          call.log[i].ev = "resample"
            => /\ call.log[i].img = "maps" => call.log[i].interpolation = "linear"
               /\ call.log[i].img = "mask" => call.log[i].interpolation = "nearest"
    /\ IsImg(self.mask_img_) => IsBinary(self.mask_img_)
    /\ (call.result # None /\ call.result.kind = "signals" /\ IsImg(call.result.mask))
          => IsBinary(call.result.mask)

\* a call that resampled the mask half a voxel away
MaskWasResampled ==
    /\ HasEvent(call.log, "resample", "mask")
    /\ call.op = "fit"
    /\ call.outcome = "ok"
    /\ (self.mask_img_.affine - params.mask_img.affine) % 2 = 1

\* C9 as stated: with resampling_target "data", a transform of a volume on
\* another grid than the fitted maps (the fitted mask) warns about the maps
\* (the mask) and goes on to extract signals instead of failing; on the same
\* grid it neither warns nor resamples.
MapsOffGrid == Grid(call.imgs) # Grid(call.pre.maps_img_)

MaskOffGrid ==
    call.pre.mask_img_ # None /\ Grid(call.imgs) # Grid(call.pre.mask_img_)

DataTransform ==
    /\ call.op = "transform"
    /\ params.resampling_target = "data"
    /\ __sklearn_is_fitted__(call.pre)
    /\ IsImg(call.imgs)

Warnings(log) == {i \in 1..Len(log) : log[i].ev = "warn"}

OffGridWarnsAndExtracts ==
    DataTransform
        => /\ MapsOffGrid => /\ HasEvent(call.log, "warn", "maps")
                             /\ call.outcome = "ok"
                             /\ HasEvent(call.log, "filter_and_extract", "data")
           /\ MaskOffGrid => /\ HasEvent(call.log, "warn", "mask")
                             /\ call.outcome = "ok"
                             /\ HasEvent(call.log, "filter_and_extract", "data")
           /\ (~MapsOffGrid /\ ~MaskOffGrid)
                => (Warnings(call.log) = {} /\ ~Resamples(call.log))

\* C9 as amended: with resampling_target "data", a transform of a volume on
\* another grid than the fitted maps (the fitted mask) warns about the maps
\* (the mask), resamples them for this call and goes on to the overlap check
\* (when allow_overlap is False) and, unless that raises, to the extraction;
\* on the same grid it neither warns nor resamples.
OffGridWarnsAndGoesOn ==
    DataTransform
        => /\ MapsOffGrid <=> HasEvent(call.log, "warn", "maps")
           /\ MapsOffGrid <=> HasEvent(call.log, "resample", "maps")
           /\ MaskOffGrid <=> HasEvent(call.log, "warn", "mask")
           /\ MaskOffGrid <=> HasEvent(call.log, "resample", "mask")
           /\ call.outcome \in {"ok", "ValueError: overlap"}
           /\ (call.outcome = "ValueError: overlap")
                => (~params.allow_overlap
                      /\ HasEvent(call.log, "overlap_check", "maps"))
           /\ (call.outcome = "ok")
                => (HasEvent(call.log, "filter_and_extract", "data")
                      /\ call.result # None)

\* a transform that warned about the maps and about the mask and extracted
WarnedTwiceAndExtracted ==
    /\ DataTransform
    /\ MapsOffGrid
    /\ MaskOffGrid
    /\ HasEvent(call.log, "warn", "maps")
    /\ HasEvent(call.log, "warn", "mask")
    /\ call.outcome = "ok"

\* C10: fit_transform(imgs, confounds, sample_mask) leaves the same fitted
\* state, returns the same signals and raises the same error as fit(imgs)
\* followed by transform(imgs, confounds, sample_mask) on a masker with
\* equal parameters and an equal past.
FitTransformIsFitThenTransform ==
    /\ twin.phase = "same" => self = twin.self
    /\ twin.phase = "done"
         => /\ call.op = "fit_transform"
            /\ self = twin.self
            /\ call.outcome = twin.call.outcome
            /\ call.result = twin.call.result

\* both maskers are through, after a fit that resampled and a transform that
\* used sample_mask and thresholded the fitted maps
PairDoneWithSignals ==
    /\ twin.phase = "done"
    /\ twin.call.op = "transform"
    /\ call.outcome = "ok"
    /\ call.sample_mask = "sample_mask"
    /\ call.result.kind = "signals"
    /\ Resamples(call.log)
    /\ self.maps_img_ # lastFit.maps_img_

\* C11: with allow_overlap False, transform raises the overlap error whenever
\* at least two maps have a non-zero value at the same voxel; with
\* allow_overlap True it never raises it.
NonZeroShared(img) ==
    \E v \in 1..img.shape :
        Cardinality({m \in 1..Len(img.data) : img.data[m][v] # 0}) > 1

PositiveShared(img) ==
    \E v \in 1..img.shape :
        Cardinality({m \in 1..Len(img.data) : img.data[m][v] > 0}) > 1

\* the overlap check of this transform ran on the fitted maps themselves
CheckedFittedMaps ==
    /\ call.op = "transform"
    /\ HasEvent(call.log, "overlap_check", "maps")
    /\ ~HasEvent(call.log, "resample", "maps")

OverlapRaisesOnNonZero ==
    /\ (CheckedFittedMaps /\ NonZeroShared(call.pre.maps_img_))
          => call.outcome = "ValueError: overlap"
    /\ (call.op = "transform" /\ params.allow_overlap)
          => call.outcome # "ValueError: overlap"

\* C12: with allow_overlap False the overlap check runs on the maps the
\* extraction would use, after any resampling for this call, and before the
\* extraction: when it raises, filter_and_extract is not invoked and nothing
\* is returned; when the extraction is invoked, the maps handed to it have
\* passed the check.
OverlapCheckedBeforeExtraction ==
    (call.op = "transform" /\ ~params.allow_overlap)
        => /\ (call.outcome = "ValueError: overlap")
                => /\ ~HasEvent(call.log, "filter_and_extract", "data")
                   /\ call.result = None
           /\ \A i \in 1..Len(call.log) :
                 (call.log[i].ev = "filter_and_extract")
                    => /\ \E j \in 1..(i - 1) : call.log[j].ev = "overlap_check"
                       /\ \A j \in 1..(i - 1) :
                             (call.log[j].ev = "resample" /\ call.log[j].img = "maps")
                                => \E k \in (j + 1)..(i - 1) :
                                      call.log[k].ev = "overlap_check"
                       /\ ~PositiveShared(call.result.maps)

\* a transform whose maps came to overlap by the resampling for this call,
\* and which raised without extracting
OverlapFoundAfterResampling ==
    /\ call.op = "transform"
    /\ ~params.allow_overlap
    /\ HasEvent(call.log, "resample", "maps")
    /\ ~PositiveShared(call.pre.maps_img_)
    /\ call.outcome = "ValueError: overlap"

\* C13 as stated: with allow_overlap False and a mask present, only voxels
\* inside the mask count for the overlap check, so maps that share positive
\* voxels solely outside the mask do not raise the overlap error.
SharedOnlyOutsideMask(maps, mask) ==
    /\ PositiveShared(maps)
    /\ mask.shape = maps.shape
    /\ \A v \in 1..maps.shape :
          (Cardinality({m \in 1..Len(maps.data) : maps.data[m][v] > 0}) > 1)
             => mask.data[1][v] = 0

\* the check of this transform ran on the fitted maps, next to a fitted mask
\* on the same grid that was not resampled either
CheckedFittedMapsWithMask ==
    /\ CheckedFittedMaps
    /\ IsImg(call.pre.mask_img_)
    /\ ~HasEvent(call.log, "resample", "mask")

OverlapCountsInsideMaskOnly ==
    (CheckedFittedMapsWithMask
       /\ SharedOnlyOutsideMask(call.pre.maps_img_, call.pre.mask_img_))
        => call.outcome # "ValueError: overlap"

\* C13 amended: the overlap check does not look at the mask: with
\* allow_overlap False and a mask present, transform raises the overlap error
\* exactly when two maps hold a positive value at one voxel, inside the mask
\* or outside it.
OverlapCheckIgnoresMask ==
    CheckedFittedMapsWithMask
        => (call.outcome = "ValueError: overlap"
               <=> PositiveShared(call.pre.maps_img_))

\* maps that overlap outside the mask only, and the overlap error
OverlapOutsideMaskRaised ==
    /\ CheckedFittedMapsWithMask
    /\ SharedOnlyOutsideMask(call.pre.maps_img_, call.pre.mask_img_)
    /\ call.outcome = "ValueError: overlap"

\* C14: inverse_transform reconstructs from the fitted maps_img_ and
\* mask_img_ only: its output lies on the grid of the fitted maps and it
\* resamples nothing, however many volumes on other grids transform has seen:
\* no transform moves the fitted maps or the fitted mask to another grid.
InverseUsesFittedGrid ==
    /\ (call.op = "inverse_transform" /\ call.outcome = "ok")
          => /\ call.result.kind = "volume"
             /\ Grid(call.result) = Grid(call.pre.maps_img_)
             /\ call.result.maps = call.pre.maps_img_
             /\ call.result.mask = call.pre.mask_img_
             /\ ~Resamples(call.log)
             /\ self = call.pre
    /\ (call.op = "transform" /\ __sklearn_is_fitted__(call.pre)
          /\ IsImg(call.pre.maps_img_))
          => /\ Grid(self.maps_img_) = Grid(call.pre.maps_img_)
             /\ self.mask_img_ = call.pre.mask_img_

\* an inverse_transform that returned a volume on the grid of the last fit,
\* after a transform of a volume on another grid
InverseReturnedVolume ==
    /\ call.op = "inverse_transform"
    /\ call.outcome = "ok"
    /\ offGrid
    /\ Grid(call.result) = Grid(lastFit.maps_img_)

\* C15: inverse_transform on a fitted masker fails without a volume whenever
\* the matrix has a number of columns other than n_elements_, and passes this
\* check when the two are equal.
InverseChecksColumns ==
    (call.op = "inverse_transform" /\ __sklearn_is_fitted__(call.pre)
       /\ hasattr_n_elements_(call.pre))
        => IF call.ncols # call.pre.n_elements_[1]
           THEN /\ call.outcome = "ValueError: shape"
                /\ call.result = None
                /\ ~HasEvent(call.log, "signals_to_img_maps", "signals")
           ELSE /\ call.outcome = "ok"
                /\ call.result.kind = "volume"

\* a matrix with the wrong number of columns was refused
InverseRefusedColumns ==
    /\ call.op = "inverse_transform"
    /\ __sklearn_is_fitted__(call.pre)
    /\ call.ncols # call.pre.n_elements_[1]
    /\ call.outcome = "ValueError: shape"

\* C16 as stated: for both values of keep_masked_maps and with or without a
\* mask, the matrix transform returns has one column per fitted map, in
\* fitted map order, so inverse_transform accepts it.
OneColumnPerMap(cols, n) == cols = [m \in 1..n |-> m]

TransformReturned ==
    /\ call.op = "transform"
    /\ call.outcome = "ok"
    /\ hasattr_n_elements_(call.pre)

TransformGivesAllColumns ==
    TransformReturned
        => /\ OneColumnPerMap(call.result.cols, call.pre.n_elements_[1])
           /\ ~_check_array_raises(self, Len(call.result.cols))

\* C16 amended: the columns follow fitted map order; with keep_masked_maps
\* True, or without a mask, there is one column per fitted map and
\* inverse_transform accepts the matrix; with keep_masked_maps False and a
\* mask, the maps that are zero everywhere inside the mask get no column, and
\* inverse_transform refuses the matrix when a map was dropped.
MaskedOut(m, maps, mask) ==
    \A v \in 1..maps.shape : maps.data[m][v] = 0 \/ mask.data[1][v] = 0

ColumnsFollowKeepMaskedMaps ==
    TransformReturned
        => LET cols == call.result.cols
               n == call.pre.n_elements_[1]
               maps == call.result.maps
               mask == call.result.mask
           IN /\ \A i \in 1..Len(cols) : cols[i] \in 1..n
              /\ \A i, j \in 1..Len(cols) : i < j => cols[i] < cols[j]
              /\ (params.keep_masked_maps \/ mask = None)
                    => OneColumnPerMap(cols, n)
              /\ (~params.keep_masked_maps /\ mask # None)
                    => \A m \in 1..n :
                          (\E i \in 1..Len(cols) : cols[i] = m)
                             <=> ~MaskedOut(m, maps, mask)
              /\ _check_array_raises(self, Len(cols)) <=> Len(cols) # n

\* a transform that dropped a masked-out map
TransformDroppedColumn ==
    /\ TransformReturned
    /\ ~params.keep_masked_maps
    /\ call.result.mask # None
    /\ Len(call.result.cols) < call.pre.n_elements_[1]

FittedMapsAreFinite ==
    (call.op = "fit" /\ call.outcome = "ok")
        => /\ self.maps_img_.nf = {}
           /\ ~HasEvent(call.log, "resample", "maps")
                 => /\ Grid(self.maps_img_) = Grid(params.maps_img)
                    /\ \A m \in 1..NVolumes(params.maps_img) :
                          \A v \in 1..params.maps_img.shape :
                             self.maps_img_.data[m][v] =
                                IF <<m, v>> \in params.maps_img.nf
                                THEN 0
                                ELSE params.maps_img.data[m][v]

\* a fit of maps holding a NaN, which is 0 in the fitted maps
FitZeroedNaN ==
    /\ call.op = "fit"
    /\ call.outcome = "ok"
    /\ ~HasEvent(call.log, "resample", "maps")
    /\ \E m \in 1..NVolumes(params.maps_img) :
          \E v \in 1..params.maps_img.shape :
             /\ <<m, v>> \in params.maps_img.nf
             /\ params.maps_img.data[m][v] # 0
             /\ self.maps_img_.data[m][v] = 0

\* C20: after any sequence of earlier calls, fit_transform(V) ends, logs and
\* returns as fit_transform(V) does on a freshly constructed masker with the
\* same parameters, and when it returns it leaves the same fitted state.
FitTransformForgetsHistory ==
    (call.op = "fit_transform")
        => LET fresh == fit_transform(params, Unfitted, call.imgs,
                                      call.confounds, call.sample_mask)
           IN /\ call.outcome = fresh.outcome
              /\ call.result = fresh.result
              /\ call.log = fresh.log
              /\ call.outcome = "ok" => self = fresh.self

\* a fit_transform that returned signals on a masker whose earlier fit had
\* left other maps
FitTransformReplacedFit ==
    /\ call.op = "fit_transform"
    /\ call.outcome = "ok"
    /\ __sklearn_is_fitted__(call.pre)
    /\ IsImg(call.pre.maps_img_)
    /\ call.pre.maps_img_ # self.maps_img_
    /\ call.result.kind = "signals"

\* C19: two maskers built from the same maps and mask objects hold
\* independent fitted state: under any interleaving of fit, transform and
\* inverse_transform calls on the two, each masker has the fitted state, and
\* each call the outcome, the trace and the result, that it has when the
\* masker's own calls run alone; and the caller's objects stay as supplied.
SharedIsAlone ==
    (twin.phase = "share")
        => /\ self = twin.solo.A.self
           /\ twin.self = twin.solo.B.self
           /\ call.outcome = twin.call.outcome
           /\ call.log = twin.call.log
           /\ call.result = twin.call.result
           /\ call.pre = twin.call.pre
           /\ params = twin.solo.A.params
           /\ params = twin.solo.B.params

\* the second masker transformed while the fitted maps of the two maskers
\* differ on one grid: the overlap check of one of them has zeroed a negative
\* weight in its own maps and left the other's as they were
SharedAfterOtherZeroed ==
    /\ twin.phase = "share"
    /\ twin.who = "B"
    /\ call.op = "transform"
    /\ call.outcome = "ok"
    /\ __sklearn_is_fitted__(self)
    /\ self.maps_img_ # twin.self.maps_img_
    /\ Grid(self.maps_img_) = Grid(twin.self.maps_img_)

\* C21: the masker never modifies what the caller supplied: the fitted maps
\* are an object of the masker's own, and no call changes the constructor
\* parameters maps_img and mask_img or the voxel values of the images they
\* name.
CallerKeepsImages ==
    /\ [](IsImg(self.maps_img_) => self.maps_img_.obj = "own")
    /\ [][params' = params]_vars

\* a transform whose overlap check zeroed a negative weight of the fitted
\* maps, while the caller's maps_img still holds it
ZeroedOwnCopyOnly ==
    /\ call.op = "transform"
    /\ IsImg(call.pre.maps_img_)
    /\ self.maps_img_ # call.pre.maps_img_
    /\ \E m \in 1..NVolumes(params.maps_img) :
          \E v \in 1..params.maps_img.shape :
             /\ params.maps_img.data[m][v] < 0
             /\ self.maps_img_.data[m][v] = 0

\* C23: a successful fit aligns to the grid named by resampling_target: with
\* "mask" the fitted maps take the mask's grid and the mask is not resampled;
\* with "maps" the fitted mask takes the maps' grid and the maps are not
\* resampled; with "data" and data passed to fit both take the data's grid;
\* and an image already on the reference grid is never resampled.
FitReturned == call.op = "fit" /\ call.outcome = "ok"

\* the grid the fit of the last call had to align to, None when it had none
ReferenceGrid ==
    IF params.resampling_target = "mask" THEN Grid(params.mask_img)
    ELSE IF params.resampling_target = "maps" THEN Grid(params.maps_img)
    ELSE IF params.resampling_target = "data" /\ IsImg(call.imgs) THEN Grid(call.imgs)
    ELSE None

FitAlignsToTarget ==
    (FitReturned /\ ReferenceGrid # None)
        => /\ Grid(self.maps_img_) = ReferenceGrid
           /\ IsImg(self.mask_img_) => Grid(self.mask_img_) = ReferenceGrid
           /\ params.resampling_target = "mask"
                 => ~HasEvent(call.log, "resample", "mask")
           /\ params.resampling_target = "maps"
                 => ~HasEvent(call.log, "resample", "maps")
           /\ HasEvent(call.log, "resample", "maps")
                 => Grid(params.maps_img) # ReferenceGrid
           /\ ~HasEvent(call.log, "resample", "maps")
                 => self.maps_img_.data = clean_img(params.maps_img).data
           /\ HasEvent(call.log, "resample", "mask")
                 => Grid(params.mask_img) # ReferenceGrid
           /\ (IsImg(self.mask_img_) /\ ~HasEvent(call.log, "resample", "mask"))
                 => self.mask_img_.data = params.mask_img.data

\* a fit with target "mask" that brought the maps to the grid of the mask
FitBroughtMapsToMask ==
    /\ FitReturned
    /\ params.resampling_target = "mask"
    /\ HasEvent(call.log, "resample", "maps")
    /\ Grid(self.maps_img_) = Grid(params.mask_img)
    /\ Grid(params.maps_img) # Grid(params.mask_img)

\* C24: at transform time the extraction step is given the shape and affine
\* of the fitted maps as target grid when resampling_target is "maps", "mask"
\* or None, and no target grid when it is "data", so that only then the
\* volume is extracted on its own grid.
Extracted ==
    /\ call.op = "transform"
    /\ call.outcome = "ok"
    /\ call.result.kind = "signals"

TargetGridUnlessData ==
    Extracted
        => IF params.resampling_target = "data"
           THEN /\ call.result.target = None
                /\ Grid(call.result.maps) = Grid(call.imgs)
           ELSE /\ call.result.target = Grid(call.pre.maps_img_)
                /\ call.result.target = Grid(call.result.maps)
                /\ ~Resamples(call.log)

\* a volume on another grid than the fitted maps, extracted with the grid of
\* the maps as target
ExtractedOnMapsGrid ==
    /\ Extracted
    /\ params.resampling_target # "data"
    /\ Grid(call.imgs) # Grid(call.pre.maps_img_)
    /\ call.result.target = Grid(call.pre.maps_img_)

\* C25: with resampling_target "data", after fit(imgs) has succeeded, every
\* later transform of a volume on the grid of imgs resamples neither maps nor
\* mask and warns of no resampling, until the next fit(); the transform that
\* fit_transform makes never warns.
FitOnDataWas == fitGrid # Absent /\ fitGrid # None

Warns(log) == \E i \in 1..Len(log) : log[i].ev = "warn"

FitOnDataAvoidsResampling ==
    /\ (call.op = "transform" /\ FitOnDataWas /\ IsImg(call.imgs)
          /\ Grid(call.imgs) = fitGrid)
          => /\ ~Resamples(call.log)
             /\ ~Warns(call.log)
    /\ call.op = "fit_transform" => ~Warns(call.log)

\* a transform on the grid of the data given to fit, which had brought the
\* maps there, after a transform of a volume on another grid
TransformedOnFitGridAgain ==
    /\ call.op = "transform"
    /\ call.outcome = "ok"
    /\ FitOnDataWas
    /\ Grid(call.imgs) = fitGrid
    /\ Grid(params.maps_img) # fitGrid
    /\ offGrid

\* C28: on a fitted masker with resampling_target "data", what transform(V)
\* returns and whether it warns depend only on V, the transform arguments and
\* the state the last successful fit left: the transforms made in between
\* change neither the signals returned for V nor the warnings emitted for V.
TransformDependsOnFitOnly ==
    (call.op = "transform" /\ params.resampling_target = "data"
       /\ fitGrid # Absent)
        => LET fresh == transform(params, lastFit, call.imgs, call.confounds,
                                  call.sample_mask)
           IN /\ call.outcome = fresh.outcome
              /\ call.result = fresh.result
              /\ call.log = fresh.log

\* C29: in the overlap check a map value counts at a voxel only if it is
\* strictly positive: every value below eps, negative ones included, is
\* treated as zero, and the error is raised exactly when some voxel has more
\* than one map with a value greater than 0; maps that coincide only where at
\* most one of them is positive never raise.
OverlapChecked ==
    /\ call.op = "transform"
    /\ HasEvent(call.log, "overlap_check", "maps")

\* the maps the check of the last call read: the fitted maps, or the maps
\* resampled to the volume of the call
CheckedMaps ==
    IF HasEvent(call.log, "resample", "maps")
    THEN resample_img(call.pre.maps_img_, call.imgs.shape, call.imgs.affine,
                      "linear")
    ELSE call.pre.maps_img_

ReportOfInt ==
    /\ call.op = "generate_report"
    /\ twin.displayed_maps.type = "int"

WarnsTooMany(log) ==
    \E i \in 1..Len(log) : log[i] = Event("warn", "displayed_maps", "-")

IntReportAsAsked(n_maps, warns) ==
    IF twin.displayed_maps.n > n_maps
    THEN /\ call.outcome = "ok"
         /\ warns
         /\ call.result.displayed = range(n_maps)
         /\ call.result.plotted = range(n_maps)
    ELSE /\ call.outcome = "ok"
         /\ ~warns
         /\ call.result.displayed = range(twin.displayed_maps.n)
         /\ call.result.plotted = range(twin.displayed_maps.n)

ListReportPlotsValidMaps ==
    (call.op = "generate_report" /\ twin.displayed_maps.type = "list"
       /\ twin.displayed_maps.l # <<>>)
        => \/ call.outcome = "ValueError: displayed_maps"
           \/ \A i \in 1..Len(call.result.plotted) :
                 call.result.plotted[i] \in 0..(self.n_elements_[1] - 1)

\* C27: save_glm_to_bids places every output file at
\* <out_dir>/<sub>/<prefix><name>: a prefix that is not a string counts as
\* empty, a non-empty prefix is followed by exactly one underscore whether or
\* not the caller's prefix already ends with "_", and <sub> is the first
\* underscore-separated component of the prefix when the prefix starts with
\* "sub-", and no sub-directory otherwise.
GivenPrefix == IF twin.prefix.str THEN twin.prefix.chars ELSE <<>>

\* the prefix without the underscore it may end with
PrefixStem ==
    IF GivenPrefix # <<>> /\ GivenPrefix[Len(GivenPrefix)] = "_"
    THEN SubSeq(GivenPrefix, 1, Len(GivenPrefix) - 1)
    ELSE GivenPrefix

\* the characters before the first underscore of the prefix
FirstComponent ==
    LET k == CHOOSE n \in 0..Len(GivenPrefix) :
                 /\ \A i \in 1..n : GivenPrefix[i] # "_"
                 /\ (n = Len(GivenPrefix) \/ GivenPrefix[n + 1] = "_")
    IN SubSeq(GivenPrefix, 1, k)

SameAsPassThrough ==
    /\ self = twin.self
    /\ call.outcome = twin.call.outcome
    /\ call.result = twin.call.result

ReusedForEqualCallOnly ==
    twin.phase = "cache"
        => /\ SameAsPassThrough
           /\ \A u \in twin.reused :
                 /\ u.then.imgs = u.now.imgs
                 /\ u.then.maps = u.now.maps
                 /\ u.then.mask = u.now.mask
                 /\ u.then.keep_masked_maps = u.now.keep_masked_maps
                 /\ u.then.target = u.now.target
                 /\ u.then.confounds = u.now.confounds
                 /\ u.then.sample_mask = u.now.sample_mask

\* C22 amended: caching is transparent; a memoised extraction result is
\* reused only for a call whose images, maps, mask, keep_masked_maps, target
\* grid, confounds and sample_mask are all equal, and a memoised resampling
\* result only for a call that resamples an equal image with the same
\* interpolation to the same target grid, whatever the images, confounds and
\* sample_mask of that call.
CachingIsTransparent ==
    twin.phase = "cache"
        => /\ SameAsPassThrough
           /\ \A u \in twin.reused :
                 IF u.func = "filter_and_extract"
                 THEN /\ u.then.imgs = u.now.imgs
                      /\ u.then.maps = u.now.maps
                      /\ u.then.mask = u.now.mask
                      /\ u.then.keep_masked_maps = u.now.keep_masked_maps
                      /\ u.then.target = u.now.target
                      /\ u.then.confounds = u.now.confounds
                      /\ u.then.sample_mask = u.now.sample_mask
                 ELSE /\ u.then.resampled = u.now.resampled
                      /\ u.then.interpolation = u.now.interpolation
                      /\ u.then.target = u.now.target

\* a transform that took its signals from the memory, stored there by a call
\* with another verbose
SignalsReusedAcrossVerbose ==
    /\ twin.phase = "cache"
    /\ call.op = "transform"
    /\ call.outcome = "ok"
    /\ call.result = twin.call.result
    /\ \E u \in twin.reused :
          u.func = "filter_and_extract" /\ u.then_verbose # u.now_verbose

====
